---- MODULE Spec2Model ----
(***************************************************************************)
(* Model of the incremental JSON line tokenizer of monaco-json             *)
(* (src/src/tokenization.ts): the carried JSONState, its equals/clone      *)
(* contract, and the scan-and-classify loop of tokenize.  A call is one    *)
(* step; the locals it ends with, and a record of every token it scanned   *)
(* with the working state before that token, stay visible until the host   *)
(* takes the result.  The character scanner of jsonc-parser is the         *)
(* external collaborator; it is modelled character by character.           *)
(*                                                                         *)
(* Texts are sequences of one-character strings; positions are 0-based as  *)
(* in the source, so the character at position p is text[p + 1].           *)
(* Arrays are heap cells: a JSONState holds a reference to its parents     *)
(* array, so that sharing (clone) and copying (Array.from) are visible.    *)
(***************************************************************************)
EXTENDS Integers, Sequences, FiniteSets, TLC

\* ---------------------------------------------------------------- bounds
MaxPieces == 2     \* a line is the concatenation of at most MaxPieces pieces
MaxDepth == 2      \* lines are offered only while the bracket stack fits
DeltaShift == 5    \* the non-zero offsetDelta a host passes
StopAt == 1        \* the stopAtOffset a host passes
MaxEqLen == 1      \* longest bracket stack of the states equals is applied to
MaxShortPieces == 1 \* pieces of a short line, and brackets open over short lines
MaxStubDepth == 0   \* brackets left open over the lines of the stubbed loop

\* ------------------------------------------------- token categories (25-35)
TOKEN_DELIM_OBJECT == "delimiter.bracket.json"
TOKEN_DELIM_ARRAY == "delimiter.array.json"
TOKEN_DELIM_COLON == "delimiter.colon.json"
TOKEN_DELIM_COMMA == "delimiter.comma.json"
TOKEN_VALUE_BOOLEAN == "keyword.json"
TOKEN_VALUE_NULL == "keyword.json"
TOKEN_VALUE_STRING == "string.value.json"
TOKEN_VALUE_NUMBER == "number.json"
TOKEN_PROPERTY_NAME == "string.key.json"
TOKEN_COMMENT_BLOCK == "comment.block.json"
TOKEN_COMMENT_LINE == "comment.line.json"

\* enum JSONParent
JSONParent == {"Object", "Array"}

\* json.ScanError, and the null the initial state is built with
ScanError ==
  {"None", "UnexpectedEndOfComment", "UnexpectedEndOfString",
   "UnexpectedEndOfNumber", "InvalidUnicode", "InvalidEscapeCharacter",
   "InvalidCharacter"}

\* ------------------------------------------------------------------ inputs
\* The pieces lines are built from: the characters the scanner
\* distinguishes, the block comment delimiters, a number cut short after
\* its dot, and one keyword.
Pieces ==
  { <<"{">>, <<"}">>, <<"[">>, <<"]">>, <<":">>, <<",">>, <<"\"">>,
    <<"/">>, <<"/", "*">>, <<"*", "/">>, <<"1">>, <<"1", ".">>, <<" ">>,
    <<"t", "r", "u", "e">> }

RECURSIVE LinesOf(_)
LinesOf(n) ==
  IF n = 0 THEN { <<>> }
  ELSE LET shorter == LinesOf(n - 1)
       IN  shorter \cup { l \o p : l \in shorter, p \in Pieces }

Lines == LinesOf(MaxPieces)

\* The optional arguments of a call: none, a shift of the offsets, or a
\* stop offset on an unshifted line.  stopAtOffset is <<>> when the host
\* leaves it out, <<n>> when it passes n.
CallArgs ==
  { [offsetDelta |-> 0, stopAtOffset |-> <<>>],
    [offsetDelta |-> DeltaShift, stopAtOffset |-> <<>>],
    [offsetDelta |-> 0, stopAtOffset |-> <<StopAt>>] }
HostStates == {"null", "host"}

\* ------------------------------------------------ the scanner (jsonc-parser)
Digits == {"0", "1", "2", "3", "4", "5", "6", "7", "8", "9"}
HexDigits == Digits \cup {"a", "b", "c", "d", "e", "f", "A", "B", "C", "D", "E", "F"}
WhiteSpace == {" ", "\t"}
LineBreaks == {"\n", "\r"}
SimpleEscapes == {"\"", "\\", "/", "b", "f", "n", "r", "t"}

\* text.charCodeAt(pos): NaN beyond the end of the text
charAt(text, pos) == IF pos >= 0 /\ pos < Len(text) THEN text[pos + 1] ELSE "NaN"

isDigit(ch) == ch \in Digits
isWhiteSpace(ch) == ch \in WhiteSpace
isLineBreak(ch) == ch \in LineBreaks

isUnknownContentCharacter(ch) ==
  ~ (isWhiteSpace(ch) \/ isLineBreak(ch)
     \/ ch \in {"}", "]", "{", "[", "\"", ":", ",", "/"})

\* the position after the run of digits that starts at pos
RECURSIVE skipDigits(_, _)
skipDigits(text, pos) ==
  IF pos < Len(text) /\ isDigit(charAt(text, pos))
  THEN skipDigits(text, pos + 1) ELSE pos

\* scanHexDigits(count, exact = true): the number of hex digits read
RECURSIVE scanHexDigits(_, _, _)
scanHexDigits(text, pos, count) ==
  IF count > 0 /\ charAt(text, pos) \in HexDigits
  THEN 1 + scanHexDigits(text, pos + 1, count - 1) ELSE 0

\* scanNumber, entered with pos on the first digit
scanNumber(text, pos) ==
  LET p1 == IF charAt(text, pos) = "0" THEN pos + 1 ELSE skipDigits(text, pos + 1)
      hasDot == p1 < Len(text) /\ charAt(text, p1) = "."
      fracOk == isDigit(charAt(text, p1 + 1))
      p2 == IF hasDot THEN skipDigits(text, p1 + 2) ELSE p1
      hasExp == p2 < Len(text) /\ charAt(text, p2) \in {"E", "e"}
      p3 == IF charAt(text, p2 + 1) \in {"+", "-"} THEN p2 + 2 ELSE p2 + 1
      expOk == p3 < Len(text) /\ isDigit(charAt(text, p3))
  IN  IF hasDot /\ ~ fracOk
        THEN [pos |-> p1 + 1, scanError |-> "UnexpectedEndOfNumber"]
      ELSE IF ~ hasExp THEN [pos |-> p2, scanError |-> "None"]
      ELSE IF expOk THEN [pos |-> skipDigits(text, p3 + 1), scanError |-> "None"]
      ELSE [pos |-> p3, scanError |-> "UnexpectedEndOfNumber"]

\* scanString, entered with pos just after the opening quote
RECURSIVE scanString(_, _, _)
scanString(text, pos, scanError) ==
  IF pos >= Len(text)
    THEN [pos |-> pos, scanError |-> "UnexpectedEndOfString"]
  ELSE LET ch == charAt(text, pos) IN
    IF ch = "\"" THEN [pos |-> pos + 1, scanError |-> scanError]
    ELSE IF ch = "\\" THEN
      IF pos + 1 >= Len(text)
        THEN [pos |-> pos + 1, scanError |-> "UnexpectedEndOfString"]
      ELSE LET ch2 == charAt(text, pos + 1) IN
        IF ch2 \in SimpleEscapes THEN scanString(text, pos + 2, scanError)
        ELSE IF ch2 = "u" THEN
          LET n == scanHexDigits(text, pos + 2, 4)
          IN  scanString(text, pos + 2 + n,
                         IF n = 4 THEN scanError ELSE "InvalidUnicode")
        ELSE scanString(text, pos + 2, "InvalidEscapeCharacter")
    ELSE IF isLineBreak(ch)
      THEN [pos |-> pos, scanError |-> "UnexpectedEndOfString"]
    ELSE scanString(text, pos + 1, scanError)

\* the position after the run of white space that starts at pos
RECURSIVE skipWhiteSpace(_, _)
skipWhiteSpace(text, pos) ==
  IF isWhiteSpace(charAt(text, pos)) THEN skipWhiteSpace(text, pos + 1) ELSE pos

\* the end of a line comment
RECURSIVE skipToLineBreak(_, _)
skipToLineBreak(text, pos) ==
  IF pos < Len(text) /\ ~ isLineBreak(charAt(text, pos))
  THEN skipToLineBreak(text, pos + 1) ELSE pos

\* the body of a block comment, entered just after its opener
RECURSIVE scanBlockComment(_, _)
scanBlockComment(text, pos) ==
  IF pos < Len(text) - 1
    THEN IF charAt(text, pos) = "*" /\ charAt(text, pos + 1) = "/"
           THEN [pos |-> pos + 2, scanError |-> "None"]
           ELSE scanBlockComment(text, pos + 1)
    ELSE [pos |-> pos + 1, scanError |-> "UnexpectedEndOfComment"]

\* the end of a word of unknown-content characters
RECURSIVE skipWord(_, _)
skipWord(text, pos) ==
  IF pos < Len(text) /\ isUnknownContentCharacter(charAt(text, pos))
  THEN skipWord(text, pos + 1) ELSE pos

Tok(kind, pos, scanError) == [kind |-> kind, pos |-> pos, scanError |-> scanError]

\* scanner.scan() at position pos: the token kind, the position after the
\* token (getPosition) and the token's error (getTokenError)
scan(text, pos) ==
  IF pos >= Len(text) THEN Tok("EOF", pos, "None")
  ELSE LET code == charAt(text, pos) IN
    IF isWhiteSpace(code) THEN Tok("Trivia", skipWhiteSpace(text, pos + 1), "None")
    ELSE IF isLineBreak(code) THEN
      Tok("LineBreakTrivia",
          IF code = "\r" /\ charAt(text, pos + 1) = "\n" THEN pos + 2 ELSE pos + 1,
          "None")
    ELSE IF code = "{" THEN Tok("OpenBraceToken", pos + 1, "None")
    ELSE IF code = "}" THEN Tok("CloseBraceToken", pos + 1, "None")
    ELSE IF code = "[" THEN Tok("OpenBracketToken", pos + 1, "None")
    ELSE IF code = "]" THEN Tok("CloseBracketToken", pos + 1, "None")
    ELSE IF code = ":" THEN Tok("ColonToken", pos + 1, "None")
    ELSE IF code = "," THEN Tok("CommaToken", pos + 1, "None")
    ELSE IF code = "\"" THEN
      LET s == scanString(text, pos + 1, "None")
      IN  Tok("StringLiteral", s.pos, s.scanError)
    ELSE IF code = "/" THEN
      IF charAt(text, pos + 1) = "/"
        THEN Tok("LineCommentTrivia", skipToLineBreak(text, pos + 2), "None")
      ELSE IF charAt(text, pos + 1) = "*" THEN
        LET c == scanBlockComment(text, pos + 2)
        IN  Tok("BlockCommentTrivia", c.pos, c.scanError)
      ELSE Tok("Unknown", pos + 1, "None")
    ELSE IF code = "-" /\ ~ isDigit(charAt(text, pos + 1))
      THEN Tok("Unknown", pos + 1, "None")
    ELSE IF code = "-" \/ isDigit(code) THEN
      LET n == scanNumber(text, IF code = "-" THEN pos + 1 ELSE pos)
      IN  Tok("NumericLiteral", n.pos, n.scanError)
    ELSE
      LET end == skipWord(text, pos)
          word == SubSeq(text, pos + 1, end)
      IN  IF word = <<"t", "r", "u", "e">> THEN Tok("TrueKeyword", end, "None")
          ELSE IF word = <<"f", "a", "l", "s", "e">> THEN Tok("FalseKeyword", end, "None")
          ELSE IF word = <<"n", "u", "l", "l">> THEN Tok("NullKeyword", end, "None")
          ELSE Tok("Unknown", end, "None")

\* ------------------------------------------------------------- JSONState
\* new JSONState(state, scanError, lastWasColon, parents); parents is a
\* reference to an array of the heap
JSONState(stateData, scanError, lastWasColon, parents) ==
  [stateData |-> stateData, scanError |-> scanError,
   lastWasColon |-> lastWasColon, parents |-> parents]

ArrayIds == {"stateArray", "workArray"}

\* areArraysEqual with the element loop left out
areArraysEqual_lengthOnly(h, first, second) ==
  IF first = second THEN TRUE
  ELSE Len(h[first]) = Len(h[second])

\* JSONState.areArraysEqual on two array references of heap h
areArraysEqual(h, first, second) ==
  IF first = second THEN TRUE
  ELSE IF Len(h[first]) # Len(h[second]) THEN FALSE
  ELSE \A index \in 1 .. Len(h[first]) : h[first][index] = h[second][index]

\* clone that forgets the colon flag
clone_withoutColon(this) ==
  JSONState(this.stateData, this.scanError, FALSE, this.parents)

\* JSONState.clone: the copy shares the parents array
clone(this) ==
  JSONState(this.stateData, this.scanError, this.lastWasColon, this.parents)

\* an equals that compares the host data as well
equals_withHostState(h, this, other) ==
  IF other = this THEN TRUE
  ELSE /\ this.stateData = other.stateData
       /\ this.scanError = other.scanError
       /\ this.lastWasColon = other.lastWasColon
       /\ areArraysEqual(h, this.parents, other.parents)

\* JSONState.equals on two JSONState objects.  Identical objects are
\* identical records, which the first test recognises.
equals(h, this, other) ==
  IF other = this THEN TRUE
  ELSE /\ this.scanError = other.scanError
       /\ this.lastWasColon = other.lastWasColon
       /\ areArraysEqual(h, this.parents, other.parents)

\* JSONState.setStateData
setStateData(this, stateData) == [this EXCEPT !.stateData = stateData]

\* ---------------------------------------------------------------- tokenize
\* lines 127-136: the line the scanner is created on
prefixedLine(line, scanError) ==
  IF scanError = "UnexpectedEndOfString" THEN <<"\"">> \o line
  ELSE IF scanError = "UnexpectedEndOfComment" THEN <<"/", "*">> \o line
  ELSE line

\* lines 124-136: numberOfInsertedCharacters
insertedCharacters(scanError) ==
  IF scanError = "UnexpectedEndOfString" THEN 1
  ELSE IF scanError = "UnexpectedEndOfComment" THEN 2
  ELSE 0

\* the offset without the offsetDelta
startOffset_withoutDelta(offsetDelta, position) == position

\* line 148: the offset of the token about to be scanned
startOffset(offsetDelta, position) == offsetDelta + position

\* the adjustment applied to the first token as well
adjustedOffset_always(offset, adjustOffset, numberOfInsertedCharacters) ==
  offset - numberOfInsertedCharacters

\* lines 166-168: the offset reported for a token
adjustedOffset(offset, adjustOffset, numberOfInsertedCharacters) ==
  IF adjustOffset THEN offset - numberOfInsertedCharacters ELSE offset

\* parents.push on the contents of an array
push(parents, tag) == Append(parents, tag)

\* a pop that empties the stack
pop_all(parents) == <<>>

\* a pop that leaves a tag behind when there is nothing to pop
pop_underflow(parents) ==
  IF Len(parents) = 0 THEN <<"Object">> ELSE SubSeq(parents, 1, Len(parents) - 1)

\* parents.pop on the contents of an array
pop(parents) ==
  IF Len(parents) = 0 THEN parents ELSE SubSeq(parents, 1, Len(parents) - 1)

\* the string category with the two conditions joined by "and"
stringType_and(lastWasColon, parents) ==
  LET currentParent == IF Len(parents) # 0 THEN parents[Len(parents)] ELSE "Object"
      inArray == currentParent = "Array"
  IN  IF lastWasColon /\ inArray THEN TOKEN_VALUE_STRING ELSE TOKEN_PROPERTY_NAME

\* lines 211-216: the category of a string literal
stringType(lastWasColon, parents) ==
  LET currentParent == IF Len(parents) # 0 THEN parents[Len(parents)] ELSE "Object"
      inArray == currentParent = "Array"
  IN  IF lastWasColon \/ inArray THEN TOKEN_VALUE_STRING ELSE TOKEN_PROPERTY_NAME

\* a switch whose other tokens clear lastWasColon as well
classify_othersReset(kind, lastWasColon, parents) ==
  LET R(type, colon, stack) == [type |-> type, lastWasColon |-> colon, parents |-> stack]
  IN  CASE kind = "OpenBraceToken" -> R(TOKEN_DELIM_OBJECT, FALSE, push(parents, "Object"))
        [] kind = "CloseBraceToken" -> R(TOKEN_DELIM_OBJECT, FALSE, pop(parents))
        [] kind = "OpenBracketToken" -> R(TOKEN_DELIM_ARRAY, FALSE, push(parents, "Array"))
        [] kind = "CloseBracketToken" -> R(TOKEN_DELIM_ARRAY, FALSE, pop(parents))
        [] kind = "ColonToken" -> R(TOKEN_DELIM_COLON, TRUE, parents)
        [] kind = "CommaToken" -> R(TOKEN_DELIM_COMMA, FALSE, parents)
        [] kind \in {"TrueKeyword", "FalseKeyword"} -> R(TOKEN_VALUE_BOOLEAN, FALSE, parents)
        [] kind = "NullKeyword" -> R(TOKEN_VALUE_NULL, FALSE, parents)
        [] kind = "StringLiteral" -> R(stringType(lastWasColon, parents), FALSE, parents)
        [] kind = "NumericLiteral" -> R(TOKEN_VALUE_NUMBER, FALSE, parents)
        [] OTHER -> R("", FALSE, parents)

\* lines 172-223: category, lastWasColon and the parents contents after a
\* token of the given kind
classify(kind, lastWasColon, parents) ==
  LET R(type, colon, stack) == [type |-> type, lastWasColon |-> colon, parents |-> stack]
  IN  CASE kind = "OpenBraceToken" -> R(TOKEN_DELIM_OBJECT, FALSE, push(parents, "Object"))
        [] kind = "CloseBraceToken" -> R(TOKEN_DELIM_OBJECT, FALSE, pop(parents))
        [] kind = "OpenBracketToken" -> R(TOKEN_DELIM_ARRAY, FALSE, push(parents, "Array"))
        [] kind = "CloseBracketToken" -> R(TOKEN_DELIM_ARRAY, FALSE, pop(parents))
        [] kind = "ColonToken" -> R(TOKEN_DELIM_COLON, TRUE, parents)
        [] kind = "CommaToken" -> R(TOKEN_DELIM_COMMA, FALSE, parents)
        [] kind \in {"TrueKeyword", "FalseKeyword"} -> R(TOKEN_VALUE_BOOLEAN, FALSE, parents)
        [] kind = "NullKeyword" -> R(TOKEN_VALUE_NULL, FALSE, parents)
        [] kind = "StringLiteral" -> R(stringType(lastWasColon, parents), FALSE, parents)
        [] kind = "NumericLiteral" -> R(TOKEN_VALUE_NUMBER, FALSE, parents)
        [] OTHER -> R("", lastWasColon, parents)

\* comments classified whatever the configuration
commentType_always(supportComments, kind, type) ==
  IF kind = "LineCommentTrivia" THEN TOKEN_COMMENT_LINE
  ELSE IF kind = "BlockCommentTrivia" THEN TOKEN_COMMENT_BLOCK
  ELSE type

\* lines 225-235: comments, iff enabled
commentType(supportComments, kind, type) ==
  IF supportComments /\ kind = "LineCommentTrivia" THEN TOKEN_COMMENT_LINE
  ELSE IF supportComments /\ kind = "BlockCommentTrivia" THEN TOKEN_COMMENT_BLOCK
  ELSE type

\* an endState built without the host data
endStateAfter_withoutHostState(state, tokenError, lastWasColon, parents) ==
  JSONState("null", tokenError, lastWasColon, parents)

\* an endState that keeps the error of the incoming state
endStateAfter_staleError(state, tokenError, lastWasColon, parents) ==
  JSONState(state.stateData, state.scanError, lastWasColon, parents)

\* an endState whose error is replaced only by an error
endStateAfter_keepsError(state, tokenError, lastWasColon, parents) ==
  JSONState(state.stateData,
            IF tokenError = "None" THEN state.scanError ELSE tokenError,
            lastWasColon, parents)

\* lines 237-242: the endState built after a token
endStateAfter(state, tokenError, lastWasColon, parents) ==
  JSONState(state.stateData, tokenError, lastWasColon, parents)

\* the working stack is the array of the incoming state itself
arrayFrom_shared(state) == state.parents

\* line 140: the array Array.from(state.parents) creates
arrayFrom(state) == "workArray"

\* lines 116-145: the locals of a call before its loop.  hostLine keeps
\* the line as the host passed it; scanned records, for every token, its
\* kind, where the scanner found it, its error, and lastWasColon and the
\* contents of parents before it; kind is what the last scan() returned.
enter(state, h, line, offsetDelta, stopAtOffset) ==
  [pc |-> "loop",
   heap |-> [h EXCEPT ![arrayFrom(state)] = h[state.parents]],
   frame |->
     [hostLine |-> line,
      line |-> prefixedLine(line, state.scanError),
      offsetDelta |-> offsetDelta,
      stopAtOffset |-> stopAtOffset,
      numberOfInsertedCharacters |-> insertedCharacters(state.scanError),
      adjustOffset |-> FALSE,
      position |-> 0,
      lastWasColon |-> state.lastWasColon,
      parents |-> arrayFrom(state),
      tokens |-> <<>>,
      endState |-> clone(state),
      scanned |-> <<>>,
      kind |-> ""]]

\* a push that leaves out the tokens without a category
pushToken_classified(tokens, offset, type) ==
  IF type = "" THEN tokens ELSE Append(tokens, [startIndex |-> offset, scopes |-> type])

\* lines 243-246: ret.tokens.push
pushToken(tokens, offset, type) ==
  Append(tokens, [startIndex |-> offset, scopes |-> type])

\* a check that compares the offset with the bare position
advanced_withoutDelta(offset, offsetDelta, position) == offset # position

\* a check that lets every scan pass
advanced_always(offset, offsetDelta, position) == TRUE

\* line 157: the scanner has advanced
advanced(offset, offsetDelta, position) == offset # offsetDelta + position

\* line.substr(from, length)
substr(text, from, length) ==
  IF from >= Len(text) THEN <<>>
  ELSE SubSeq(text, from + 1, IF from + length < Len(text) THEN from + length ELSE Len(text))

\* lines 158-161: the characters the Error of a failed call reports after
\* 'Scanner did not advance, next 3 characters are: '
thrown(c) == substr(c.frame.line, c.frame.position, 3)

\* lines 147-247: one iteration of the loop of a call in configuration c,
\* t being what scanner.scan() leaves: the kind, getPosition() and
\* getTokenError()
iterateOn(t, supportComments, state, c) ==
  LET f == c.frame
      offset == startOffset(f.offsetDelta, f.position)
      cl == classify(t.kind, f.lastWasColon, c.heap[f.parents])
      type == commentType(supportComments, t.kind, cl.type)
  IN  IF t.kind = "EOF"
        THEN [c EXCEPT !.pc = "done", !.frame.kind = t.kind, !.frame.position = t.pos]
      ELSE IF ~ advanced(offset, f.offsetDelta, t.pos)
        THEN [c EXCEPT !.pc = "failed", !.frame.kind = t.kind, !.frame.position = t.pos]
      ELSE
        [pc |-> "loop",
         heap |-> [c.heap EXCEPT ![f.parents] = cl.parents],
         frame |->
           [f EXCEPT
              !.kind = t.kind,
              !.adjustOffset = f.numberOfInsertedCharacters > 0,
              !.position = t.pos,
              !.lastWasColon = cl.lastWasColon,
              !.endState = endStateAfter(state, t.scanError, cl.lastWasColon, f.parents),
              !.tokens = pushToken(f.tokens,
                                   adjustedOffset(offset, f.adjustOffset,
                                                  f.numberOfInsertedCharacters),
                                   type),
              !.scanned = Append(f.scanned,
                 [kind |-> t.kind, start |-> f.position, scanError |-> t.scanError,
                  lastWasColon |-> f.lastWasColon, parents |-> c.heap[f.parents]])]]

\* one iteration on the scanner of jsonc-parser
iterate(supportComments, state, c) ==
  iterateOn(scan(c.frame.line, c.frame.position), supportComments, state, c)

\* the loop run to its end
RECURSIVE run(_, _, _)
run(supportComments, state, c) ==
  IF c.pc = "loop" THEN run(supportComments, state, iterate(supportComments, state, c))
  ELSE c

\* tokenize(comments, line, state, offsetDelta, stopAtOffset) as a function:
\* the returned tokens and endState, and the heap the endState refers to
tokenize(supportComments, line, state, h, offsetDelta, stopAtOffset) ==
  run(supportComments, state, enter(state, h, line, offsetDelta, stopAtOffset))

\* ------------------------------------------------------------------- state
VARIABLES
  comments,   \* supportComments of createTokenizationSupport
  state,      \* the JSONState the host holds for the next line
  heap,       \* the contents of the arrays
  pc,         \* "idle", or how the last tokenize call ended: "done", "failed"
  frame,      \* the locals the last call ended with
  pending,    \* history: the category of the string the previous line ended in
  depth,      \* history: the nesting depth of the bracket tokens scanned so far
  sigColon,   \* history: the most recent significant token scanned was a colon
  cached,     \* a state the host has put aside, and what it held then
  eq          \* the last application of equals: its operands and its result

vars == <<comments, state, heap, pc, frame, pending, depth, sigColon, cached, eq>>

\* the locals once the host has taken the result
NoFrame ==
  [hostLine |-> <<>>, line |-> <<>>, offsetDelta |-> 0, stopAtOffset |-> <<>>,
   numberOfInsertedCharacters |-> 0, adjustOffset |-> FALSE, position |-> 0,
   lastWasColon |-> FALSE, parents |-> "workArray", tokens |-> <<>>,
   endState |-> JSONState("null", "null", FALSE, "stateArray"), scanned |-> <<>>,
   kind |-> ""]

\* count of bracket-opening characters of a line
RECURSIVE opens(_)
opens(line) ==
  IF line = <<>> THEN 0
  ELSE (IF Head(line) \in {"{", "["} THEN 1 ELSE 0) + opens(Tail(line))

\* nothing put aside yet
NoCache ==
  [taken |-> FALSE, state |-> JSONState("null", "null", FALSE, "stateArray"),
   stack |-> <<>>]

\* no application of equals yet
NoEq ==
  [kind |-> "none", this |-> JSONState("null", "null", FALSE, "stateArray"),
   other |-> JSONState("null", "null", FALSE, "stateArray"), result |-> TRUE]

Init ==
  /\ comments \in BOOLEAN
  /\ state = JSONState("null", "null", FALSE, "stateArray")
  /\ heap = [a \in ArrayIds |-> <<>>]
  /\ pc = "idle"
  /\ frame = NoFrame
  /\ pending = ""
  /\ depth = 0
  /\ sigColon = FALSE
  /\ cached = NoCache
  /\ eq = NoEq

\* getInitialState (line 13)
GetInitialState ==
  /\ pc = "idle"
  /\ state' = JSONState("null", "null", FALSE, "stateArray")
  /\ heap' = [a \in ArrayIds |-> <<>>]
  /\ pending' = ""
  /\ depth' = 0
  /\ sigColon' = FALSE
  /\ UNCHANGED <<comments, pc, frame, cached, eq>>

\* the host stores its own data in the state it holds (lines 111-113)
SetStateData(stateData) ==
  /\ stateData # state.stateData
  /\ state' = setStateData(state, stateData)
  /\ UNCHANGED <<comments, heap, pc, frame, pending, depth, sigColon, cached, eq>>

Last(seq) == seq[Len(seq)]

\* the tokens the first switch of the loop has a case for
Significant ==
  {"OpenBraceToken", "CloseBraceToken", "OpenBracketToken", "CloseBracketToken",
   "ColonToken", "CommaToken", "TrueKeyword", "FalseKeyword", "NullKeyword",
   "StringLiteral", "NumericLiteral"}

\* whether the most recent significant token is a colon after the tokens
\* scanned[i..], c telling it before them
RECURSIVE colonAfter(_, _, _)
colonAfter(scanned, i, c) ==
  IF i > Len(scanned) THEN c
  ELSE IF scanned[i].kind \in Significant
    THEN colonAfter(scanned, i + 1, scanned[i].kind = "ColonToken")
  ELSE colonAfter(scanned, i + 1, c)

\* the nesting depth after the bracket tokens scanned[i..], entered at d
RECURSIVE depthAfter(_, _, _)
depthAfter(scanned, i, d) ==
  IF i > Len(scanned) THEN d
  ELSE IF scanned[i].kind \in {"OpenBraceToken", "OpenBracketToken"}
    THEN depthAfter(scanned, i + 1, d + 1)
  ELSE IF scanned[i].kind \in {"CloseBraceToken", "CloseBracketToken"} /\ d > 0
    THEN depthAfter(scanned, i + 1, d - 1)
  ELSE depthAfter(scanned, i + 1, d)

\* the host calls tokenize on the next line with the state it holds; the
\* call runs to its return (or to its throw)
Call(line, offsetDelta, stopAtOffset) ==
  /\ Len(heap[state.parents]) + opens(line) <= MaxDepth
  /\ \E c \in {tokenize(comments, line, state, heap, offsetDelta, stopAtOffset)} :
       /\ pc' = c.pc /\ heap' = c.heap /\ frame' = c.frame
       /\ depth' = depthAfter(c.frame.scanned, 1, depth)
       /\ sigColon' = colonAfter(c.frame.scanned, 1, sigColon)
  /\ UNCHANGED <<comments, state, pending, cached, eq>>

\* the host takes the result and keeps ret.endState for the next line.  The
\* arrays no longer referenced are reclaimed.
Return ==
  /\ pc = "done"
  /\ state' = [frame.endState EXCEPT !.parents = "stateArray"]
  /\ heap' = [a \in ArrayIds |->
                IF a = "stateArray" THEN heap[frame.endState.parents] ELSE <<>>]
  /\ pc' = "idle"
  /\ frame' = NoFrame
  /\ pending' =
       IF frame.tokens = <<>> THEN pending
       ELSE IF frame.endState.scanError = "UnexpectedEndOfString"
         THEN frame.tokens[Len(frame.tokens)].scopes
       ELSE ""
  /\ UNCHANGED <<comments, depth, sigColon, cached, eq>>

\* a host that tokenizes line after line and leaves offsetDelta at its
\* default
Next ==
  \/ GetInitialState
  \/ /\ pc = "idle"
     /\ \E line \in Lines : Call(line, 0, <<>>)
  \/ Return

Spec == Init /\ [][Next]_vars

\* a host that tokenizes line after line and passes a shift of the offsets
NextShifted ==
  \/ GetInitialState
  \/ /\ pc = "idle"
     /\ \E line \in Lines : Call(line, DeltaShift, <<>>)
  \/ Return

SpecShifted == Init /\ [][NextShifted]_vars

\* a host that also stores its own data in the states and passes
\* stopAtOffset, on short lines
ShortLines == LinesOf(MaxShortPieces)

NextHost ==
  \/ /\ pc = "idle"
     /\ \E stateData \in HostStates : SetStateData(stateData)
  \/ /\ pc = "idle"
     /\ \E line \in ShortLines, args \in CallArgs :
          Call(line, args.offsetDelta, args.stopAtOffset)
  \/ Return

SpecHost == Init /\ [][NextHost]_vars

\* ------------------------------------------- equals as a function of states
\* The states equals is applied to: any host data, an error a line can end
\* with, any flag, any array of the heap.  A state whose error is still the
\* null of the initial state has scanned no token.
EqErrors == {"null", "None", "UnexpectedEndOfComment"}

EqStacks == UNION { [1 .. n -> JSONParent] : n \in 0 .. MaxEqLen }

EqStates(h) ==
  { s \in [stateData : HostStates, scanError : EqErrors,
           lastWasColon : BOOLEAN, parents : ArrayIds] :
      s.scanError = "null" => (~ s.lastWasColon /\ h[s.parents] = <<>>) }

InitEq ==
  /\ comments \in BOOLEAN
  /\ state = JSONState("null", "null", FALSE, "stateArray")
  /\ heap \in [ArrayIds -> EqStacks]
  /\ pc = "equals"
  /\ frame = NoFrame
  /\ pending = ""
  /\ depth = 0
  /\ sigColon = FALSE
  /\ cached = NoCache
  /\ eq = NoEq

\* this.equals(other)
EqualsCall(this, other) ==
  /\ eq' = [kind |-> "equals", this |-> this, other |-> other,
            result |-> equals(heap, this, other)]
  /\ UNCHANGED <<comments, state, heap, pc, frame, pending, depth, sigColon, cached>>

\* this.equals(this.clone())
CloneCall(this) ==
  /\ eq' = [kind |-> "clone", this |-> this, other |-> clone(this),
            result |-> equals(heap, this, clone(this))]
  /\ UNCHANGED <<comments, state, heap, pc, frame, pending, depth, sigColon, cached>>

NextEq ==
  \/ /\ pc = "equals"
     /\ \E this \in EqStates(heap), other \in EqStates(heap) : EqualsCall(this, other)
  \/ /\ pc = "equals"
     /\ \E this \in EqStates(heap) : CloneCall(this)

SpecEq == InitEq /\ [][NextEq]_vars

\* ------------------------------------------- the loop on a stubbed scanner
\* A stubbed Line Scanner: at the end of the text it returns end-of-input;
\* before the end it answers as jsonc-parser does, or returns an Unknown
\* token without moving, or, as its first answer, moves over one character
\* only.
StubScans(text, pos) ==
  IF pos >= Len(text) THEN {Tok("EOF", pos, "None")}
  ELSE {scan(text, pos), Tok("Unknown", pos, "None")}
         \cup (IF pos = 0 THEN {Tok("Unknown", 1, "None")} ELSE {})

\* lines 116-145: a call enters its loop
StubCall(line, offsetDelta, stopAtOffset) ==
  /\ pc = "idle"
  /\ Len(heap[state.parents]) + opens(line) <= MaxStubDepth
  /\ \E c \in {enter(state, heap, line, offsetDelta, stopAtOffset)} :
       pc' = c.pc /\ heap' = c.heap /\ frame' = c.frame
  /\ UNCHANGED <<comments, state, pending, depth, sigColon, cached, eq>>

\* lines 147-247: one iteration of the loop on what the stub returns
StubIterate ==
  /\ pc = "loop"
  /\ \E t \in StubScans(frame.line, frame.position) :
       \E c \in {iterateOn(t, comments, state, [pc |-> pc, heap |-> heap, frame |-> frame])} :
         /\ pc' = c.pc /\ heap' = c.heap /\ frame' = c.frame
         /\ depth' = IF c.pc = "loop" THEN depthAfter(<<Last(c.frame.scanned)>>, 1, depth)
                     ELSE depth
         /\ sigColon' = IF c.pc = "loop" THEN colonAfter(<<Last(c.frame.scanned)>>, 1, sigColon)
                        ELSE sigColon
  /\ UNCHANGED <<comments, state, pending, cached, eq>>

\* lines 158-161: the Error leaves the call; the host receives no result and
\* still holds the state it passed
Throw ==
  /\ pc = "failed"
  /\ pc' = "idle"
  /\ frame' = NoFrame
  /\ heap' = [heap EXCEPT !["workArray"] = <<>>]
  /\ depth' = Len(heap[state.parents])
  /\ sigColon' = state.lastWasColon
  /\ UNCHANGED <<comments, state, pending, cached, eq>>

NextStub ==
  \/ \E line \in ShortLines, offsetDelta \in {0, DeltaShift} :
       StubCall(line, offsetDelta, <<>>)
  \/ StubIterate
  \/ Return
  \/ Throw

SpecStub == Init /\ [][NextStub]_vars

\* the loop keeps running until it breaks, returns or throws
SpecStubFair == SpecStub /\ WF_vars(StubIterate)

\* ------------------------------------- a state the host keeps across calls
\* The host may put aside the state it holds and go on tokenizing; the
\* state put aside keeps its reference to its parents array.
CacheArrayIds == ArrayIds \cup {"cachedArray"}

InitCache ==
  /\ comments \in BOOLEAN
  /\ state = JSONState("null", "null", FALSE, "stateArray")
  /\ heap = [a \in CacheArrayIds |-> <<>>]
  /\ pc = "idle"
  /\ frame = NoFrame
  /\ pending = ""
  /\ depth = 0
  /\ sigColon = FALSE
  /\ cached = NoCache
  /\ eq = NoEq

\* the host puts the state it holds aside; stack records what its array
\* holds at that moment
Cache ==
  /\ pc = "idle"
  /\ ~ cached.taken
  /\ cached' = [taken |-> TRUE, state |-> state, stack |-> heap[state.parents]]
  /\ UNCHANGED <<comments, state, heap, pc, frame, pending, depth, sigColon, eq>>

\* the host takes the result of a call (line 249).  The endState of a line
\* without tokens shares the array of the incoming state; otherwise the
\* array of the incoming state stays with the state put aside, if that
\* refers to it, and is reclaimed if not.
CacheReturn ==
  /\ pc = "done"
  /\ state' = [frame.endState EXCEPT !.parents = "stateArray"]
  /\ IF frame.endState.parents = "stateArray"
       THEN /\ heap' = [heap EXCEPT !["workArray"] = <<>>]
            /\ cached' = cached
       ELSE /\ heap' = [a \in CacheArrayIds |->
                          IF a = "stateArray" THEN heap[frame.endState.parents]
                          ELSE IF a = "workArray" THEN <<>>
                          ELSE IF cached.taken /\ cached.state.parents = "stateArray"
                            THEN heap["stateArray"]
                          ELSE heap["cachedArray"]]
            /\ cached' = IF cached.taken
                           THEN [cached EXCEPT !.state.parents = "cachedArray"]
                           ELSE cached
  /\ pc' = "idle"
  /\ frame' = NoFrame
  /\ pending' =
       IF frame.tokens = <<>> THEN pending
       ELSE IF frame.endState.scanError = "UnexpectedEndOfString"
         THEN frame.tokens[Len(frame.tokens)].scopes
       ELSE ""
  /\ UNCHANGED <<comments, depth, sigColon, eq>>

NextCache ==
  \/ Cache
  \/ /\ pc = "idle"
     /\ \E line \in ShortLines :
          /\ Len(heap[state.parents]) + opens(line) <= MaxShortPieces
          /\ Call(line, 0, <<>>)
  \/ CacheReturn

SpecCache == InitCache /\ [][NextCache]_vars


\* ================================================================= claims
Returned == pc = "done"
Openers == {"OpenBraceToken", "OpenBracketToken"}
Closers == {"CloseBraceToken", "CloseBracketToken"}
\* the innermost open bracket, Object when there is none
Innermost(stack) == IF stack = <<>> THEN "Object" ELSE stack[Len(stack)]
\* lastWasColon and the working bracket stack after the i-th token of the
\* call: what the next token finds or, for the last token, what the call
\* ends with
ColonAfter(i) ==
  IF i < Len(frame.scanned) THEN frame.scanned[i + 1].lastWasColon
  ELSE frame.lastWasColon
StackAfter(i) ==
  IF i < Len(frame.scanned) THEN frame.scanned[i + 1].parents
  ELSE heap[frame.parents]

\* C1: a string literal is emitted as property-name exactly when, before
\* the token, afterColon is false and the innermost open bracket (Object
\* for an empty stack) is Object, and as value-string otherwise; afterColon
\* is false after the token.
C1_StringCategory ==
  Returned =>
    \A i \in 1 .. Len(frame.tokens) :
      frame.scanned[i].kind = "StringLiteral" =>
        /\ frame.tokens[i].scopes =
             IF ~ frame.scanned[i].lastWasColon
                /\ Innermost(frame.scanned[i].parents) = "Object"
             THEN "string.key.json" ELSE "string.value.json"
        /\ ColonAfter(i) = FALSE

\* a string after a colon inside an object: value-string although the
\* innermost bracket is Object
C1_Witness ==
  /\ Returned
  /\ \E i \in 1 .. Len(frame.tokens) :
       /\ frame.scanned[i].kind = "StringLiteral"
       /\ frame.tokens[i].scopes = "string.value.json"
       /\ frame.scanned[i].parents # <<>>
       /\ Innermost(frame.scanned[i].parents) = "Object"

\* C2: when the previous line ended inside an unterminated string that was
\* classified value-string, the first token of the next line, the
\* continuation of that string, is classified value-string.
C2_ContinuationIsValueString ==
  (Returned /\ frame.tokens # <<>>
     /\ state.scanError = "UnexpectedEndOfString" /\ pending = "string.value.json")
  => frame.tokens[1].scopes = "string.value.json"

\* the number of characters the claim says were inserted for an incoming error
C3_Inserted(scanError) ==
  CASE scanError = "UnexpectedEndOfString" -> 1
    [] scanError = "UnexpectedEndOfComment" -> 2
    [] OTHER -> 0

\* the position in the host's line where the i-th token of the call begins
C3_HostPosition(i) ==
  IF i = 1 THEN 0 ELSE frame.scanned[i].start - C3_Inserted(state.scanError)

\* C3: every emitted startIndex is offsetDelta plus the position in the
\* host's unprefixed line where the token begins: 0 for the first token,
\* the position in the prefixed line minus the inserted characters (1 for
\* a pending string, 2 for a pending block comment, 0 otherwise) for the
\* later ones, which is where the host's line holds the token's first
\* character.
C3_OffsetsOfHostLine ==
  Returned =>
    \A i \in 1 .. Len(frame.tokens) :
      /\ frame.tokens[i].startIndex = frame.offsetDelta + C3_HostPosition(i)
      /\ frame.scanned[1].start = 0
      /\ i > 1 =>
           /\ C3_HostPosition(i) >= 0
           /\ C3_HostPosition(i) < Len(frame.hostLine)
           /\ frame.hostLine[C3_HostPosition(i) + 1] = frame.line[frame.scanned[i].start + 1]

\* a line that closes a pending block comment and has a token after it
C3_Witness ==
  /\ Returned /\ state.scanError = "UnexpectedEndOfComment"
  /\ Len(frame.tokens) >= 2
  /\ frame.offsetDelta # 0

\* C4: with stopAtOffset given, every returned token was scanned strictly
\* before that offset.
C4_StopAtOffsetTruncates ==
  (Returned /\ frame.stopAtOffset # <<>>) =>
    \A i \in 1 .. Len(frame.tokens) :
      frame.tokens[i].startIndex < frame.stopAtOffset[1]

\* C5: the call with offsetDelta = d returns as many tokens, with the same
\* categories, as the call with offsetDelta = 0 on the same line and state;
\* every startIndex is d larger and the endState is the same.
C5_OffsetDeltaShifts ==
  (Returned /\ frame.offsetDelta # 0) =>
    \A r \in {tokenize(comments, frame.hostLine, state, heap, 0, frame.stopAtOffset)} :
      /\ r.pc = "done"
      /\ Len(frame.tokens) = Len(r.frame.tokens)
      /\ \A i \in 1 .. Len(frame.tokens) :
           /\ frame.tokens[i].scopes = r.frame.tokens[i].scopes
           /\ frame.tokens[i].startIndex = r.frame.tokens[i].startIndex + frame.offsetDelta
      /\ frame.endState.scanError = r.frame.endState.scanError
      /\ frame.endState.lastWasColon = r.frame.endState.lastWasColon
      /\ frame.endState.stateData = r.frame.endState.stateData
      /\ heap[frame.endState.parents] = r.heap[r.frame.endState.parents]

\* a shifted call on a line with a recovery prefix and a later token
C5_Witness ==
  /\ Returned /\ frame.offsetDelta = DeltaShift
  /\ frame.numberOfInsertedCharacters > 0
  /\ Len(frame.tokens) >= 2

\* the three fields of two states agree
C6_SameFields(a, b) ==
  /\ a.scanError = b.scanError
  /\ a.lastWasColon = b.lastWasColon
  /\ Len(heap[a.parents]) = Len(heap[b.parents])
  /\ \A i \in 1 .. Len(heap[a.parents]) : heap[a.parents][i] = heap[b.parents][i]

\* C6: equals is true exactly when pendingError, afterColon and the bracket
\* stacks (length and every tag) agree; the host state has no influence;
\* equals is reflexive, symmetric and transitive, and a clone equals its
\* original.
C6_EqualsIsFieldEquality ==
  eq.kind # "none" =>
    /\ eq.result <=> C6_SameFields(eq.this, eq.other)
    /\ \A d \in HostStates :
         /\ equals(heap, setStateData(eq.this, d), eq.other) = eq.result
         /\ equals(heap, eq.this, setStateData(eq.other, d)) = eq.result
    /\ equals(heap, eq.this, eq.this)
    /\ equals(heap, eq.other, eq.this) = eq.result
    /\ \A third \in EqStates(heap) :
         (eq.result /\ equals(heap, eq.other, third)) => equals(heap, eq.this, third)
    /\ eq.kind = "clone" => eq.result

\* two equal states with different host data and different arrays
C6_Witness ==
  /\ eq.kind = "equals" /\ eq.result
  /\ eq.this.stateData # eq.other.stateData
  /\ eq.this.parents # eq.other.parents
  /\ heap[eq.this.parents] # <<>>

\* C7: an empty line tokenized with a state whose pendingError is None
\* returns no token and an endState that equals the incoming state.
C7_EmptyLineKeepsState ==
  (Returned /\ frame.hostLine = <<>> /\ state.scanError \in {"null", "None"}) =>
    /\ frame.tokens = <<>>
    /\ equals(heap, frame.endState, state)
    /\ equals(heap, state, frame.endState)

\* an empty line after a colon inside an open bracket
C7_Witness ==
  /\ Returned /\ frame.hostLine = <<>>
  /\ state.scanError = "None" /\ state.lastWasColon
  /\ heap[state.parents] # <<>>

PendingConstructs == {"UnexpectedEndOfString", "UnexpectedEndOfComment"}

\* the endState carries the error of the last token of the line
C8_ErrorOfLastToken ==
  (Returned /\ frame.tokens # <<>>) =>
    frame.endState.scanError = Last(frame.scanned).scanError

\* C8 (as claimed): after a line with at least one token, the endState's
\* pendingError is the error of the last token scanned; so when the
\* incoming state had a pending string or block comment and the line closes
\* it and does not end inside a new one, the endState's pendingError is None.
C8_ClosedConstructClearsError ==
  /\ C8_ErrorOfLastToken
  /\ (Returned /\ state.scanError \in PendingConstructs
        /\ frame.scanned[1].scanError = "None"
        /\ Last(frame.scanned).scanError \notin PendingConstructs)
     => frame.endState.scanError = "None"

\* C8 (amended): after a line with at least one token, the endState's
\* pendingError is the error of the last token scanned; so when the
\* incoming state had a pending string or block comment, the line closes it
\* and its last token has no scan error, the endState's pendingError is None.
C8_Amended ==
  /\ C8_ErrorOfLastToken
  /\ (Returned /\ state.scanError \in PendingConstructs
        /\ frame.scanned[1].scanError = "None"
        /\ Last(frame.scanned).scanError = "None")
     => frame.endState.scanError = "None"

\* a line that closes the pending string and goes on with further tokens
C8_Witness ==
  /\ Returned /\ state.scanError = "UnexpectedEndOfString"
  /\ Len(frame.tokens) >= 2
  /\ frame.scanned[1].scanError = "None"
  /\ frame.endState.scanError = "None"

\* C9 (as claimed): the pendingError of every carried state is None (the
\* null of the initial state included), UnterminatedString or
\* UnterminatedBlockComment.
C9_PendingErrorEnum ==
  state.scanError \in {"null", "None", "UnexpectedEndOfString", "UnexpectedEndOfComment"}

\* C9 (amended): the pendingError of a carried state is None,
\* UnterminatedString, UnterminatedBlockComment or the error the scanner
\* reported for the last token of the line when that token is a number cut
\* short (UnexpectedEndOfNumber) or a string with an invalid escape,
\* unicode sequence or character; a line without tokens passes the
\* incoming pendingError on.
C9_Amended ==
  /\ state.scanError \in ScanError \cup {"null"}
  /\ Returned =>
       \/ frame.endState.scanError \in
            {"null", "None", "UnexpectedEndOfString", "UnexpectedEndOfComment"}
       \/ /\ frame.tokens # <<>>
          /\ Last(frame.scanned).kind = "NumericLiteral"
          /\ frame.endState.scanError = "UnexpectedEndOfNumber"
       \/ /\ frame.tokens # <<>>
          /\ Last(frame.scanned).kind = "StringLiteral"
          /\ frame.endState.scanError \in
               {"InvalidUnicode", "InvalidEscapeCharacter", "InvalidCharacter"}
       \/ /\ frame.tokens = <<>>
          /\ frame.endState.scanError = state.scanError

\* a line that ends in a number cut short
C9_Witness ==
  /\ Returned /\ frame.tokens # <<>>
  /\ frame.endState.scanError = "UnexpectedEndOfNumber"

\* the bracket tokens scanned[i..] never close more than is open when
\* entered at depth d, and leave depth 0
RECURSIVE C10_Balanced(_, _, _)
C10_Balanced(scanned, i, d) ==
  IF i > Len(scanned) THEN d = 0
  ELSE IF scanned[i].kind \in Openers THEN C10_Balanced(scanned, i + 1, d + 1)
  ELSE IF scanned[i].kind \in Closers THEN d > 0 /\ C10_Balanced(scanned, i + 1, d - 1)
  ELSE C10_Balanced(scanned, i + 1, d)

\* the effect of the i-th token of the call on the working bracket stack
C10_StackStep(i) ==
  LET kind == frame.scanned[i].kind
      before == frame.scanned[i].parents
      after == StackAfter(i)
  IN  CASE kind = "OpenBraceToken" -> after = Append(before, "Object")
        [] kind = "OpenBracketToken" -> after = Append(before, "Array")
        [] kind \in Closers ->
             before # <<>> => after = SubSeq(before, 1, Len(before) - 1)
        [] OTHER -> after = before

\* C10: after every token the length of the working bracket stack is the
\* open-bracket nesting depth: an opening brace pushes one Object, an
\* opening bracket one Array, a closing one pops exactly one tag of a
\* non-empty stack, any other token leaves the stack alone; a line with
\* balanced brackets scanned from an empty stack ends with an empty stack.
C10_StackIsNestingDepth ==
  /\ pc = "idle" => Len(heap[state.parents]) = depth
  /\ Returned =>
       /\ frame.scanned # <<>> => frame.scanned[1].parents = heap[state.parents]
       /\ \A i \in 1 .. Len(frame.scanned) :
            /\ C10_StackStep(i)
            /\ Len(StackAfter(i)) =
                 depthAfter(SubSeq(frame.scanned, 1, i), 1, Len(heap[state.parents]))
       /\ Len(heap[frame.parents]) = depth
       /\ heap[frame.endState.parents] = heap[frame.parents]
       /\ (heap[state.parents] = <<>> /\ C10_Balanced(frame.scanned, 1, 0))
            => heap[frame.endState.parents] = <<>>

\* a closing bracket at depth two has left exactly one tag
C10_Witness ==
  /\ Returned
  /\ \E i \in 1 .. Len(frame.scanned) :
       /\ frame.scanned[i].kind \in Closers
       /\ Len(frame.scanned[i].parents) = 2
       /\ Len(StackAfter(i)) = 1

\* C11: a closing brace or bracket scanned while the bracket stack is empty
\* leaves the stack empty and is still emitted as its delimiter token; no
\* call fails, whatever bracket tokens its line holds.
C11_PopOnEmptyIsNoOp ==
  /\ pc # "failed"
  /\ Returned =>
       /\ Len(frame.tokens) = Len(frame.scanned)
       /\ \A i \in 1 .. Len(frame.scanned) :
            (frame.scanned[i].kind \in Closers /\ frame.scanned[i].parents = <<>>) =>
              /\ StackAfter(i) = <<>>
              /\ frame.tokens[i].scopes =
                   IF frame.scanned[i].kind = "CloseBraceToken"
                   THEN TOKEN_DELIM_OBJECT ELSE TOKEN_DELIM_ARRAY

\* a closing bracket meets an empty stack after a mismatched closing brace
\* has emptied it
C11_Witness ==
  /\ Returned
  /\ \E i \in 2 .. Len(frame.scanned) :
       /\ frame.scanned[i].kind = "CloseBracketToken"
       /\ frame.scanned[i].parents = <<>>
       /\ frame.scanned[i - 1].kind = "CloseBraceToken"
       /\ frame.scanned[i - 1].parents = <<"Array">>

\* a scan that returned a token other than end-of-input and left the
\* scanner where it was
C12_Stalled == pc = "loop" /\ frame'.kind # "EOF" /\ frame'.position = frame.position

C18_CallTerminates ==
  /\ [](pc \in {"loop", "done", "failed"} =>
          /\ Len(frame.line) =
               Len(frame.hostLine) + frame.numberOfInsertedCharacters
          /\ Len(frame.scanned) <= Len(frame.line)
          /\ \A i \in 1 .. Len(frame.scanned) :
               /\ frame.scanned[i].start < Len(frame.line)
               /\ frame.scanned[i].start <
                    (IF i < Len(frame.scanned) THEN frame.scanned[i + 1].start
                     ELSE frame.position))
  /\ [](pc = "done" => frame.kind = "EOF" /\ frame.position >= Len(frame.line))
  /\ (pc = "loop") ~> (pc \in {"done", "failed"})

\* a call on a prefixed line that took one iteration per character
C18_Witness ==
  /\ pc = "done"
  /\ frame.numberOfInsertedCharacters = 2
  /\ Len(frame.hostLine) >= 1
  /\ Len(frame.scanned) = Len(frame.line)

Comments == {"LineCommentTrivia", "BlockCommentTrivia"}

\* C13: with comments disabled every line comment and block comment is
\* emitted with the empty category, with comments enabled as comment-line
\* and comment-block; the same call under the other configuration emits
\* every token at the same offset, the other tokens with the same category,
\* and ends with the same afterColon, bracket stack and pendingError.
C13_CommentGating ==
  (Returned /\ \E i \in 1 .. Len(frame.scanned) : frame.scanned[i].kind \in Comments) =>
    /\ \A i \in 1 .. Len(frame.scanned) :
         /\ frame.scanned[i].kind = "LineCommentTrivia" =>
              frame.tokens[i].scopes = IF comments THEN TOKEN_COMMENT_LINE ELSE ""
         /\ frame.scanned[i].kind = "BlockCommentTrivia" =>
              frame.tokens[i].scopes = IF comments THEN TOKEN_COMMENT_BLOCK ELSE ""
    /\ \A r \in {tokenize(~ comments, frame.hostLine, state, heap,
                           frame.offsetDelta, frame.stopAtOffset)} :
         /\ r.pc = "done"
         /\ Len(r.frame.tokens) = Len(frame.tokens)
         /\ \A i \in 1 .. Len(frame.tokens) :
              /\ r.frame.tokens[i].startIndex = frame.tokens[i].startIndex
              /\ r.frame.scanned[i].kind = frame.scanned[i].kind
              /\ frame.scanned[i].kind \notin Comments =>
                   r.frame.tokens[i].scopes = frame.tokens[i].scopes
         /\ r.frame.endState.lastWasColon = frame.endState.lastWasColon
         /\ r.frame.endState.scanError = frame.endState.scanError
         /\ r.heap[r.frame.endState.parents] = heap[frame.endState.parents]

\* comments disabled: a block comment after a colon is emitted without a
\* category and leaves afterColon set
C13_Witness ==
  /\ Returned /\ ~ comments
  /\ \E i \in 2 .. Len(frame.scanned) :
       /\ frame.scanned[i].kind = "BlockCommentTrivia"
       /\ frame.tokens[i].scopes = ""
       /\ frame.scanned[i - 1].kind = "ColonToken"
       /\ ColonAfter(i)

\* a heap that holds the contents first in one array and second in the other
HeapOf(first, second) ==
  [a \in ArrayIds |-> IF a = "stateArray" THEN first ELSE second]

\* C14: the result of a call depends on the comments flag, the line, the
\* offsetDelta and the incoming state up to equals only: the call on another
\* state object with other host data, built apart from every earlier call
\* with an array of its own, that equals the incoming state returns the same
\* token list and an endState that equals the one returned.
C14_FunctionOfArguments ==
  Returned =>
    \A d \in HostStates \ {state.stateData} :
      LET stack == heap[state.parents]
          other == JSONState(d, state.scanError, state.lastWasColon, "workArray")
      IN  /\ equals(HeapOf(stack, stack), state, other)
          /\ \A r \in {tokenize(comments, frame.hostLine,
                                 [other EXCEPT !.parents = "stateArray"],
                                 HeapOf(stack, <<>>),
                                 frame.offsetDelta, frame.stopAtOffset)} :
               /\ r.pc = "done"
               /\ r.frame.tokens = frame.tokens
               /\ equals(HeapOf(heap[frame.endState.parents],
                                  r.heap[r.frame.endState.parents]),
                         [frame.endState EXCEPT !.parents = "stateArray"],
                         [r.frame.endState EXCEPT !.parents = "workArray"])

\* a call with several tokens on a state with host data, afterColon set
\* and an open bracket
C14_Witness ==
  /\ Returned
  /\ state.stateData = "host"
  /\ state.lastWasColon
  /\ heap[state.parents] # <<>>
  /\ Len(frame.tokens) >= 2

\* C15: afterColon is true exactly when the most recent significant token
\* scanned over all lines so far was a colon: in the state the host holds,
\* before and after every token of a call and in the endState.  Comments,
\* whitespace and line boundaries leave it unchanged, and a string scanned
\* while it is true is a value-string.
C15_AfterColonIsLastSignificant ==
  /\ pc = "idle" => state.lastWasColon = sigColon
  /\ Returned =>
       /\ frame.lastWasColon = sigColon
       /\ frame.endState.lastWasColon = sigColon
       /\ frame.tokens = <<>> => frame.endState.lastWasColon = state.lastWasColon
       /\ \A i \in 1 .. Len(frame.scanned) :
            /\ frame.scanned[i].lastWasColon =
                 colonAfter(SubSeq(frame.scanned, 1, i - 1), 1, state.lastWasColon)
            /\ frame.scanned[i].kind \notin Significant =>
                 ColonAfter(i) = frame.scanned[i].lastWasColon
            /\ (frame.scanned[i].kind = "StringLiteral" /\ frame.scanned[i].lastWasColon) =>
                 frame.tokens[i].scopes = TOKEN_VALUE_STRING

\* a string in an object, after whitespace, whose colon ended the line before
C15_Witness ==
  /\ Returned
  /\ state.lastWasColon
  /\ Innermost(heap[state.parents]) = "Object"
  /\ Len(frame.scanned) = 2
  /\ frame.scanned[1].kind \notin Significant
  /\ frame.scanned[2].kind = "StringLiteral"
  /\ frame.tokens[2].scopes = TOKEN_VALUE_STRING

\* C16: a call changes neither the pendingError, afterColon or bracket
\* stack of the incoming state nor those of a state returned earlier that
\* the host has put aside: the array of the state put aside holds what it
\* held then, whatever calls came later, and the pushes and pops of a call
\* go to an array that is neither the incoming state's nor the one put
\* aside.
C16_StatesAreNotMutated ==
  /\ [][(pc = "idle" /\ pc' # "idle") =>
          /\ state' = state
          /\ heap'[state.parents] = heap[state.parents]
          /\ frame'.parents # state.parents
          /\ cached.taken => frame'.parents # cached.state.parents]_vars
  /\ [](cached.taken => heap[cached.state.parents] = cached.stack)
  /\ [][cached.taken =>
          /\ cached'.taken /\ cached'.stack = cached.stack
          /\ cached'.state.scanError = cached.state.scanError
          /\ cached'.state.lastWasColon = cached.state.lastWasColon]_vars

\* a state with an open bracket was put aside; a call returned since, and
\* a later call has ended with another stack
C16_Witness ==
  /\ Returned
  /\ cached.taken
  /\ cached.stack # <<>>
  /\ cached.state.parents = "cachedArray"
  /\ heap[state.parents] # cached.stack
  /\ heap[frame.parents] # heap[state.parents]

\* C17: the host data of the endState is the host data of the incoming
\* state, on lines with and without tokens, and the call on the same state
\* with other host data returns the same tokens and an endState with the
\* same pendingError, afterColon and bracket stack that carries the other
\* data.
C17_HostStatePassesThrough ==
  Returned =>
    /\ frame.endState.stateData = state.stateData
    /\ \A d \in HostStates \ {state.stateData} :
         \A r \in {tokenize(comments, frame.hostLine, setStateData(state, d), heap,
                            frame.offsetDelta, frame.stopAtOffset)} :
           /\ r.pc = "done"
           /\ r.frame.endState.stateData = d
           /\ r.frame.tokens = frame.tokens
           /\ r.frame.endState.scanError = frame.endState.scanError
           /\ r.frame.endState.lastWasColon = frame.endState.lastWasColon
           /\ r.heap[r.frame.endState.parents] = heap[frame.endState.parents]

\* a line with tokens that changes other fields of a state that carries
\* host data
C17_Witness ==
  /\ Returned
  /\ state.stateData = "host"
  /\ frame.tokens # <<>>
  /\ frame.endState.stateData = "host"
  /\ frame.endState.scanError # state.scanError
  /\ heap[frame.endState.parents] # heap[state.parents]

\* C19: a call that produces at least one token and ends with no scan
\* error on its last token, afterColon false and an empty bracket stack
\* returns an endState that equals the state of the initial-state factory.
C19_EndStateEqualsInitialState ==
  (/\ Returned
   /\ frame.tokens # <<>>
   /\ Last(frame.scanned).scanError = "None"
   /\ ~ frame.endState.lastWasColon
   /\ heap[frame.endState.parents] = <<>>)
  => equals(HeapOf(heap[frame.endState.parents], <<>>),
            [frame.endState EXCEPT !.parents = "stateArray"],
            JSONState("null", "null", FALSE, "workArray"))

\* the tokens before end-of-input that the scanner finds in text from pos
\* on, with the position each starts at
RECURSIVE C20_ScannerTokens(_, _)
C20_ScannerTokens(text, pos) ==
  LET t == scan(text, pos)
  IN  IF t.kind = "EOF" THEN <<>>
      ELSE <<[kind |-> t.kind, start |-> pos]>> \o C20_ScannerTokens(text, t.pos)

\* C20: the token list has one entry per scanner token before
\* end-of-input, in scan order, whatever its category; the startIndex values
\* are strictly increasing and never below offsetDelta, with or without a
\* recovery prefix, where the first token keeps its offset and the later
\* ones are shifted back by the length of the prefix.
C20_OneEntryPerToken ==
  Returned =>
    \A found \in {C20_ScannerTokens(prefixedLine(frame.hostLine, state.scanError), 0)} :
      /\ Len(frame.tokens) = Len(found)
      /\ Len(frame.scanned) = Len(found)
      /\ \A i \in 1 .. Len(found) :
           /\ frame.scanned[i].kind = found[i].kind
           /\ frame.tokens[i].startIndex >= frame.offsetDelta
           /\ frame.tokens[i].startIndex =
                frame.offsetDelta + found[i].start
                  - (IF i = 1 THEN 0 ELSE C3_Inserted(state.scanError))
           /\ i < Len(found) => frame.tokens[i].startIndex < frame.tokens[i + 1].startIndex

\* a line scanned with the two-character prefix whose second token has no
\* category
C20_Witness ==
  /\ Returned
  /\ state.scanError = "UnexpectedEndOfComment"
  /\ Len(frame.tokens) >= 2
  /\ frame.tokens[2].scopes = ""
  /\ frame.tokens[2].startIndex = frame.tokens[1].startIndex + 2

====
